---- MODULE Spec2Model ----
(***************************************************************************)
(* A model of the SOC analyst agent (src/agent/agent.py): readiness        *)
(* polling, connection to the MCP tool provider, tool discovery, and the   *)
(* bounded agent loop that alternates reasoning-engine calls with tool     *)
(* invocations.  The tool provider and the reasoning engine are external:  *)
(* every value they return, and every failure they raise, is a             *)
(* nondeterministic choice from a small set.  SpecTwo follows several      *)
(* calls of the agent side by side in one process, and SpecServer the      *)
(* four tools of the MCP server (src/mcp_server/server.py).                *)
(***************************************************************************)
EXTENDS Integers, Sequences, FiniteSets, TLC

\* ------------------------------------------------------------------ bounds
\* Largest iteration ceiling the configuration is drawn from.
MaxCeiling == 2
\* Largest number of tool requests the engine puts in one decision.
MaxCalls == 2
\* Number of sessions run side by side in one process.
NumSessions == 2
\* Number of tool calls the MCP server is followed through.
MaxRequests == 2
\* The limits asked of get_recent_alerts run from -MaxLimit to MaxLimit.
MaxLimit == 12

\* ------------------------------------------------------- program constants
\* wait_for_ollama(url, model, timeout=120)
WAIT_TIMEOUT == 120
\* time.sleep(5) between two readiness polls
POLL_SLEEP == 5
\* httpx.get(..., timeout=5): the longest one poll can take
POLL_HTTP_TIMEOUT == 5

\* ---------------------------------------------------------- Python values
\* A Python value is a record tagged with its type, so that isinstance()
\* is a test of the tag.
PyNone == [py |-> "NoneType"]
PyStr(s) == [py |-> "str", s |-> s]
\* A str that is to be decoded: the sequence of its JSON lexemes.
PyText(chars) == [py |-> "str", chars |-> chars]
PyInt(n) == [py |-> "int", n |-> n]
PyList(elems) == [py |-> "list", elems |-> elems]
\* A dict: its items in insertion order, each <<key, value>>.
PyDict(items) == [py |-> "dict", items |-> items]
\* What a function that has not returned has as its value.
NoResult == [py |-> "<no return>"]

isinstance(v, t) == v.py = t

\* `x or ""` on an optional str.
OrEmpty(v) == IF v = PyNone \/ v = PyStr("") THEN "" ELSE v.s

\* ------------------------------------------------------------- json.loads
\* The lexemes of JSON strings and numbers the model uses, with the Python
\* value each one denotes.
StrLexemes == {"\"ip_address\"", "\"45.33.32.156\"", "\"limit\""}
NumLexemes == {"1", "3"}

Unquote(lex) ==
    CASE lex = "\"ip_address\"" -> "ip_address"
      [] lex = "\"45.33.32.156\"" -> "45.33.32.156"
      [] lex = "\"limit\"" -> "limit"

NumValue(lex) ==
    CASE lex = "1" -> 1
      [] lex = "3" -> 3

JsonError == [ok |-> FALSE]
JsonOk(v, next) == [ok |-> TRUE, value |-> v, next |-> next]

RECURSIVE ParseValue(_, _)
RECURSIVE ParseElements(_, _, _)
RECURSIVE ParseMembers(_, _, _)

\* One JSON value starting at lexeme i of toks: the value and the index
\* after it, or JsonError.
ParseValue(toks, i) ==
    IF i > Len(toks) THEN JsonError
    ELSE LET t == toks[i] IN
         CASE t = "null" -> JsonOk(PyNone, i + 1)
           [] t \in NumLexemes -> JsonOk(PyInt(NumValue(t)), i + 1)
           [] t \in StrLexemes -> JsonOk(PyText(<<Unquote(t)>>), i + 1)
           [] t = "[" ->
                IF i + 1 <= Len(toks) /\ toks[i + 1] = "]"
                THEN JsonOk(PyList(<<>>), i + 2)
                ELSE ParseElements(toks, i + 1, <<>>)
           [] t = "{" ->
                IF i + 1 <= Len(toks) /\ toks[i + 1] = "}"
                THEN JsonOk(PyDict(<<>>), i + 2)
                ELSE ParseMembers(toks, i + 1, <<>>)
           [] OTHER -> JsonError

\* The elements of an array after its "[" (or after a ","), acc being the
\* elements read so far.
ParseElements(toks, i, acc) ==
    LET v == ParseValue(toks, i) IN
    IF ~v.ok \/ v.next > Len(toks) THEN JsonError
    ELSE LET acc2 == Append(acc, v.value) IN
         CASE toks[v.next] = "]" -> JsonOk(PyList(acc2), v.next + 1)
           [] toks[v.next] = "," -> ParseElements(toks, v.next + 1, acc2)
           [] OTHER -> JsonError

\* The members of an object after its "{" (or after a ",").
ParseMembers(toks, i, acc) ==
    IF i + 1 > Len(toks) \/ toks[i] \notin StrLexemes \/ toks[i + 1] # ":"
    THEN JsonError
    ELSE LET v == ParseValue(toks, i + 2) IN
         IF ~v.ok \/ v.next > Len(toks) THEN JsonError
         ELSE LET acc2 == Append(acc, <<Unquote(toks[i]), v.value>>) IN
              CASE toks[v.next] = "}" -> JsonOk(PyDict(acc2), v.next + 1)
                [] toks[v.next] = "," -> ParseMembers(toks, v.next + 1, acc2)
                [] OTHER -> JsonError

\* json.loads(s): the value of the whole text, or JsonError (JSONDecodeError)
\* when it is not one JSON value.
json_loads(s) ==
    LET v == ParseValue(s.chars, 1) IN
    IF v.ok /\ v.next = Len(s.chars) + 1 THEN [ok |-> TRUE, value |-> v.value]
    ELSE JsonError

\* ------------------------------------------------------- the collaborators
\* Tool descriptors the provider can list (mcp Tool objects).
GetRecentAlertsTool ==
    [name |-> "get_recent_alerts",
     description |-> "Retrieve recent security alerts from the SOC log store.",
     inputSchema |-> [type |-> "object", properties |-> <<"limit">>]]
CheckIpReputationTool ==
    [name |-> "check_ip_reputation",
     description |-> "Check if an IP address is known to be malicious.",
     inputSchema |-> [type |-> "object", properties |-> <<"ip_address">>]]

\* What list_tools() can answer: no tool at all, or the provider's tools.
ProviderListings == {<<>>, <<GetRecentAlertsTool, CheckIpReputationTool>>}

\* The user's task statement: the query of __main__, or one of those its
\* comment suggests.
UserQueries == {"Please review our recent security alerts.",
                "Is IP 45.33.32.156 a threat? Investigate and report"}

SYSTEM_PROMPT == "You are a skilled SOC (Security Operations Center) analyst."
EXHAUSTED_TEXT == "Agent reached maximum iterations without completing analysis."
NO_CONTENT_TEXT == "Tool returned no content"
TOOL_ERROR_PREFIX == "Tool execution error: "
MCP_UNREACHABLE_TEXT == "Could not connect to MCP server"
OLLAMA_TIMEOUT_TEXT == "Timed out waiting for Ollama"

\* One tool request of the engine: tc.function.name, tc.function.arguments.
ToolCall(name, arguments) == [function |-> [name |-> name, arguments |-> arguments]]

\* The tool requests the engine chooses from.  Their arguments cover an
\* already-structured dict, a str that decodes to a dict, a str that decodes
\* to a list, and a str that is not JSON.
ToolCallCycle ==
    << ToolCall("get_recent_alerts", PyDict(<< <<"limit", PyInt(3)>> >>)),
       ToolCall("check_ip_reputation",
                PyText(<<"{", "\"ip_address\"", ":", "\"45.33.32.156\"", "}">>)),
       ToolCall("get_alert_details", PyText(<<"[", "1", "]">>)),
       ToolCall("no_such_tool", PyText(<<"not-json">>)) >>

\* The n requests that follow each other from the k-th on, cyclically.
ToolCallRun(k, n) ==
    [i \in 1..n |-> ToolCallCycle[((k + i - 2) % Len(ToolCallCycle)) + 1]]

\* The non-empty batches of one decision: every single request, and every
\* run of up to MaxCalls requests.
ToolCallBatches ==
    {ToolCallRun(k, n) : k \in 1..Len(ToolCallCycle), n \in 1..MaxCalls}

\* The engine's answers (response.message): a final answer carries no tool
\* request and any text, also none, also the text the agent itself returns
\* at the ceiling; a tool-calling answer carries 1..MaxCalls requests, with
\* or without text.  An absent tool_calls (None) and an empty one are both
\* the empty sequence here: the code tests only their truth value.
FinalAnswers ==
    [content : {PyNone, PyStr("Risk level HIGH: BLOCK 45.33.32.156"),
                PyStr(EXHAUSTED_TEXT)},
     tool_calls : {<<>>}]
ToolAnswers ==
    [content : {PyNone, PyStr("I will check the alerts first.")},
     tool_calls : ToolCallBatches]
LlmMessages == FinalAnswers \cup ToolAnswers

\* Exceptions: the class and str(e).
Exc(type, msg) == [type |-> type, msg |-> msg]
\* What connecting to, initializing or listing the tool provider can raise.
ProviderErrors ==
    { Exc("ConnectionRefusedError", "[Errno 111] Connect call failed (mcp-server:8000)"),
      Exc("McpError", "MCP server closed the connection") }
\* What ollama_client.chat can raise.
EngineErrors ==
    { Exc("ConnectionRefusedError", "[Errno 111] Connection refused (ollama:11434)"),
      Exc("ResponseError", "ollama: model not found") }
\* What session.call_tool can raise.
ToolErrors == { Exc("McpError", "Unknown tool") }
SystemExit == Exc("SystemExit", "1")
NoException == Exc("", "")

\* The content blocks of a call_tool response.
TextContent(text) == [type |-> "text", text |-> text]
ImageContent == [type |-> "image", data |-> "iVBORw0KGgo=", mimeType |-> "image/png"]
ToolContents ==
    { <<>>,
      <<TextContent("{\"alert_count\": 3}")>>,
      <<ImageContent, TextContent("{\"alert_count\": 3}")>> }

\* What one provider invocation ends with.
Returned(content) == [kind |-> "returned", content |-> content]
Raised(e) == [kind |-> "raised", error |-> e]

\* Model names, cut into the pieces the names of this model differ by, so
\* that `a in b` on two names is a test for a run of pieces.
MODEL == <<"llama3.1", ":8b">>
OtherModel == <<"mistral", ":7b">>
LongerModel == <<"llama3.1", ":8b", "-instruct-q4_K_M">>

\* What one readiness poll of /api/tags can observe: httpx.get raises (or
\* the body does not parse), or a response arrives with a status and the
\* names of the models it lists, none when the body has no "models".
PollResults ==
    { [kind |-> "exception"],
      [kind |-> "response", status_code |-> 503, models |-> <<>>],
      [kind |-> "response", status_code |-> 200, models |-> <<>>],
      [kind |-> "response", status_code |-> 200, models |-> <<OtherModel>>],
      [kind |-> "response", status_code |-> 200, models |-> <<OtherModel, MODEL>>],
      [kind |-> "response", status_code |-> 200, models |-> <<LongerModel>>] }

\* No poll is being looked at.
NotPolled == [kind |-> "none"]

\* a in b for two names: a is a run of consecutive pieces of b.
NameIn(a, b) ==
    \E i \in 1..(Len(b) - Len(a) + 1) : SubSeq(b, i, i + Len(a) - 1) = a

\* Any answer with status 200 taken as ready, whatever it lists.
ModelAvailableWhenUp(r) == r.kind = "response" /\ r.status_code = 200

\* resp.status_code == 200 and any(model in m for m in models)
ModelAvailable(r) ==
    /\ r.kind = "response"
    /\ r.status_code = 200
    /\ \E i \in 1..Len(r.models) : NameIn(MODEL, r.models[i])

\* ------------------------------------------------------------------ state
VARIABLES
    pc,              \* where run_soc_agent is
    MAX_ITERATIONS,  \* the configured ceiling
    user_query,      \* the argument of run_soc_agent
    elapsed,         \* seconds since wait_for_ollama started
    polled,          \* what the poll of this pass of wait_for_ollama observed
    sse_open,        \* the sse_client context is entered
    session_open,    \* the ClientSession context is entered
    ollama_client,   \* the ollama.Client of the session
    ollama_tools,    \* the converted capability set
    messages,        \* the transcript
    iteration,       \* the loop counter
    llm_message,     \* the decision being processed
    tool_index,      \* position of the for loop in llm_message.tool_calls
    outcome,         \* Running, or how the session ended
    result,          \* the value run_soc_agent returned
    raised,          \* the exception that left run_soc_agent
    reported,        \* the error text printed on a fatal failure
    failed,          \* the call whose exception ended the session
    chat_calls,      \* number of ollama_client.chat calls issued
    list_calls,      \* number of session.list_tools calls issued
    dispatched,      \* the call_tool invocations issued, in order
    outcomes,        \* what each finished invocation ended with, in order
    provider_tools,  \* the tools the MCP server offers at this moment
    mcp_tools,       \* tools_response.tools, the listing the session got
    chat_requests,   \* the messages and tools of each chat call, in order
    sessions,        \* side by side: the locals of each run_soc_agent call
    served,          \* side by side: what each call was answered with
    actor,           \* side by side: the call that took the last step
    tool_log         \* the MCP server: the tool calls it has answered

\* The variables of one session on its own, but for the process-wide
\* MAX_ITERATIONS.
oneVars == <<pc, user_query, elapsed, polled, sse_open, session_open,
             ollama_client, ollama_tools, messages, iteration, llm_message,
             tool_index, outcome, result, raised, reported, failed, chat_calls,
             list_calls, dispatched, outcomes, provider_tools, mcp_tools,
             chat_requests>>

\* The variables of the sessions run side by side.
twoVars == <<sessions, served, actor>>

\* The variable of the MCP server taken on its own.
serverVars == <<tool_log>>

vars == <<oneVars, MAX_ITERATIONS, twoVars, serverVars>>

NoMessage == [content |-> PyNone, tool_calls |-> <<>>]

\* The run_soc_agent calls of one process.
Sessions == 1..NumSessions

\* The locals of a run_soc_agent call that has not started.
IdleTask ==
    [pc |-> "start", messages |-> <<>>, iteration |-> 0,
     llm_message |-> NoMessage, tool_index |-> 0, outcome |-> "Running"]

\* Nothing asked, nothing answered.
NothingServed == [chats |-> 0, decisions |-> <<>>, results |-> <<>>]

Init ==
    /\ pc = "wait_for_ollama"
    /\ MAX_ITERATIONS \in (0 - 1)..MaxCeiling
    /\ user_query \in UserQueries
    /\ elapsed = 0
    /\ polled = NotPolled
    /\ sse_open = FALSE
    /\ session_open = FALSE
    /\ ollama_client = "none"
    /\ ollama_tools = <<>>
    /\ messages = <<>>
    /\ iteration = 0
    /\ llm_message = NoMessage
    /\ tool_index = 0
    /\ outcome = "Running"
    /\ result = NoResult
    /\ raised = NoException
    /\ reported = ""
    /\ failed = "none"
    /\ chat_calls = 0
    /\ list_calls = 0
    /\ dispatched = <<>>
    /\ outcomes = <<>>
    /\ provider_tools \in ProviderListings
    /\ mcp_tools = <<>>
    /\ chat_requests = <<>>
    /\ sessions = [s \in Sessions |-> IdleTask]
    /\ served = [s \in Sessions |-> NothingServed]
    /\ actor = 0
    /\ tool_log = <<>>

\* ------------------------------------------------------- pure helpers
\* A conversion that declares every tool as taking no parameters.
ConvertDropsProperties(mcp_tool) ==
    [type |-> "function",
     function |-> [name |-> mcp_tool.name,
                   description |-> mcp_tool.description,
                   parameters |-> [type |-> "object", properties |-> <<>>]]]

\* convert_mcp_tool_to_ollama_format: the Ollama form of one MCP tool.
convert_mcp_tool_to_ollama_format(mcp_tool) ==
    [type |-> "function",
     function |-> [name |-> mcp_tool.name,
                   description |-> mcp_tool.description,
                   parameters |-> mcp_tool.inputSchema]]

\* [convert_mcp_tool_to_ollama_format(t) for t in mcp_tools]
ConvertAll(tools) ==
    [i \in 1..Len(tools) |-> convert_mcp_tool_to_ollama_format(tools[i])]

\* The seed with the user's message ahead of the system prompt.
SeedMessagesUserFirst(query) ==
    << [role |-> "user", content |-> query],
       [role |-> "system", content |-> SYSTEM_PROMPT] >>

\* The transcript the loop starts from.
SeedMessages(query) ==
    << [role |-> "system", content |-> SYSTEM_PROMPT],
       [role |-> "user", content |-> query] >>

\* The assistant message with the text only, the tool requests left out.
AssistantMessageTextOnly(m) ==
    [role |-> "assistant", content |-> OrEmpty(m.content), tool_calls |-> <<>>]

\* The assistant message appended for a decision: `content or ""`, and one
\* {"function": {"name", "arguments"}} per tool request, in order.
AssistantMessage(m) ==
    [role |-> "assistant",
     content |-> OrEmpty(m.content),
     tool_calls |-> [i \in 1..Len(m.tool_calls) |->
                        ToolCall(m.tool_calls[i].function.name,
                                 m.tool_calls[i].function.arguments)]]

\* A tool result fed back in the user's role.
ToolMessageAsUser(text) == [role |-> "user", content |-> text]

\* {"role": "tool", "content": tool_result_text}
ToolMessage(text) == [role |-> "tool", content |-> text]

\* A str that does not decode handed on as it is.
NormalizeArgumentsKeepsRaw(tool_args) ==
    IF isinstance(tool_args, "str")
    THEN LET d == json_loads(tool_args) IN
         IF d.ok THEN d.value ELSE tool_args
    ELSE tool_args

\* The arguments handed to call_tool for a request's raw arguments: a str
\* is decoded, and replaced by {} when it does not decode; anything else is
\* passed as it is.
NormalizeArguments(tool_args) ==
    IF isinstance(tool_args, "str")
    THEN LET d == json_loads(tool_args) IN
         IF d.ok THEN d.value ELSE PyDict(<<>>)
    ELSE tool_args

\* The invocation issued for a request.
Invocation(tool_call) ==
    [name |-> tool_call.function.name,
     arguments |-> NormalizeArguments(tool_call.function.arguments)]

\* tool_result_text for what an invocation ended with: the text of the
\* first content block, the sentinel when there is no block, and the error
\* text when call_tool raised or the first block has no text attribute.
ToolResultText(o) ==
    IF o.kind = "returned"
    THEN IF Len(o.content) > 0
         THEN IF "text" \in DOMAIN o.content[1]
              THEN o.content[1].text
              ELSE TOOL_ERROR_PREFIX \o "'ImageContent' object has no attribute 'text'"
         ELSE NO_CONTENT_TEXT
    ELSE TOOL_ERROR_PREFIX \o o.error.msg

\* An append that keeps the two seed messages and, from the fourth message
\* on, drops the oldest message after them.
AppendMessageSlidingWindow(msgs, m) ==
    IF Len(msgs) >= 4
    THEN <<msgs[1], msgs[2]>> \o SubSeq(msgs, 4, Len(msgs)) \o <<m>>
    ELSE Append(msgs, m)

\* messages.append(m)
AppendMessage(msgs, m) == Append(msgs, m)

\* The loop condition with the comparison off by one.
WhileConditionOffByOne == iteration <= MAX_ITERATIONS

\* The loop condition of a loop whose first pass is never tested.
WhileConditionFirstPassFree == iteration = 0 \/ iteration < MAX_ITERATIONS

\* The loop condition that keeps the last iteration back.
WhileConditionStopsEarly == iteration + 1 < MAX_ITERATIONS

\* The while condition of the agent loop.
WhileCondition == iteration < MAX_ITERATIONS

\* A decision taken as final only when it also carries text.
NoToolCallsNeedsText(m) == Len(m.tool_calls) = 0 /\ m.content # PyNone

\* `not llm_message.tool_calls`: the decision is a final answer.
NoToolCalls(m) == Len(m.tool_calls) = 0

\* The final answer returned as the transcript records it.
FinalResultAsRecorded(m) == PyStr(OrEmpty(m.content))

\* The value returned for a final answer.
FinalResult(m) == m.content

\* The collaborator behind each call that can raise.
Collaborator(call) ==
    CASE call \in {"sse_client", "initialize", "list_tools", "call_tool"} -> "provider"
      [] call \in {"chat", "wait_for_ollama"} -> "engine"
      [] OTHER -> "none"

\* ------------------------------------------------------------ the actions
\* Leaving both `async with` blocks closes the session and the SSE stream;
\* the ollama.Client is not closed by the code.
Terminal ==
    /\ pc' = "done"
    /\ sse_open' = FALSE
    /\ session_open' = FALSE

\* The two except clauses of run_soc_agent, for exception e raised by the
\* call `call` inside the try block: a ConnectionRefusedError is reported as
\* an unreachable MCP server and the process exits; anything else is
\* printed and raised again.
Abort(e, call) ==
    /\ Terminal
    /\ outcome' = "FatalError"
    /\ failed' = call
    /\ IF e.type = "ConnectionRefusedError"
       THEN /\ reported' = MCP_UNREACHABLE_TEXT
            /\ raised' = SystemExit
       ELSE /\ reported' = e.msg
            /\ raised' = e

\* return value
Return(how, value) ==
    /\ Terminal
    /\ outcome' = how
    /\ result' = value
    /\ UNCHANGED <<raised, reported, failed>>

\* wait_for_ollama: the deadline has not passed at the top of the loop, and
\* /api/tags is polled; the poll takes up to its timeout.
WaitForOllamaPoll ==
    /\ pc = "wait_for_ollama"
    /\ polled = NotPolled
    /\ elapsed < WAIT_TIMEOUT
    /\ \E r \in PollResults, took \in {0, POLL_HTTP_TIMEOUT} :
          /\ polled' = r
          /\ elapsed' = elapsed + took
    /\ UNCHANGED <<serverVars, twoVars, provider_tools, mcp_tools, chat_requests,
                   pc, MAX_ITERATIONS, user_query, sse_open, session_open,
                   ollama_client, ollama_tools, messages, iteration, llm_message,
                   tool_index, outcome, result, raised, reported, failed, chat_calls, list_calls, dispatched,
                   outcomes>>

\* wait_for_ollama: the poll did not find the model; time.sleep(5), and
\* back to the top of the loop.
WaitForOllamaRetry ==
    /\ pc = "wait_for_ollama"
    /\ polled # NotPolled
    /\ ~ModelAvailable(polled)
    /\ polled' = NotPolled
    /\ elapsed' = elapsed + POLL_SLEEP
    /\ UNCHANGED <<serverVars, twoVars, provider_tools, mcp_tools, chat_requests,
                   pc, MAX_ITERATIONS, user_query, sse_open, session_open,
                   ollama_client, ollama_tools, messages, iteration, llm_message,
                   tool_index, outcome, result, raised, reported, failed, chat_calls, list_calls, dispatched,
                   outcomes>>

\* wait_for_ollama: the poll found the model; the function returns and its
\* locals are gone with it.
WaitForOllamaReady ==
    /\ pc = "wait_for_ollama"
    /\ polled # NotPolled
    /\ ModelAvailable(polled)
    /\ pc' = "sse_client"
    /\ polled' = NotPolled
    /\ elapsed' = 0
    /\ UNCHANGED <<serverVars, twoVars, provider_tools, mcp_tools, chat_requests,
                   MAX_ITERATIONS, user_query, sse_open, session_open,
                   ollama_client, ollama_tools, messages, iteration, llm_message,
                   tool_index, outcome, result, raised, reported, failed, chat_calls, list_calls, dispatched,
                   outcomes>>

\* wait_for_ollama: the deadline has passed at the top of the loop;
\* sys.exit(1) outside the try block.
WaitForOllamaTimeout ==
    /\ pc = "wait_for_ollama"
    /\ polled = NotPolled
    /\ elapsed >= WAIT_TIMEOUT
    /\ pc' = "done"
    /\ outcome' = "NotStarted"
    /\ raised' = SystemExit
    /\ reported' = OLLAMA_TIMEOUT_TEXT
    /\ failed' = "wait_for_ollama"
    /\ UNCHANGED <<polled, serverVars, twoVars, provider_tools, mcp_tools,
                   chat_requests, MAX_ITERATIONS, user_query, elapsed, sse_open,
                   session_open, ollama_client, ollama_tools, messages, iteration,
                   llm_message, tool_index, result, chat_calls, list_calls,
                   dispatched, outcomes>>

\* async with sse_client(MCP_SERVER_URL), ClientSession(...): connected.
SseClientConnects ==
    /\ pc = "sse_client"
    /\ pc' = "initialize"
    /\ sse_open' = TRUE
    /\ session_open' = TRUE
    /\ UNCHANGED <<polled, serverVars, twoVars, provider_tools, mcp_tools, chat_requests,
                   MAX_ITERATIONS, user_query, elapsed, ollama_client,
                   ollama_tools, messages, iteration, llm_message, tool_index,
                   outcome, result, raised, reported, failed, chat_calls,
                   list_calls, dispatched, outcomes>>

\* Connecting raises.
SseClientRaises ==
    /\ pc = "sse_client"
    /\ \E e \in ProviderErrors : Abort(e, "sse_client")
    /\ UNCHANGED <<polled, serverVars, twoVars, provider_tools, mcp_tools, chat_requests,
                   MAX_ITERATIONS, user_query, elapsed, ollama_client,
                   ollama_tools, messages, iteration, llm_message, tool_index,
                   result, chat_calls, list_calls, dispatched, outcomes>>

\* await session.initialize() returns, and list_tools is called.
InitializeReturns ==
    /\ pc = "initialize"
    /\ pc' = "list_tools"
    /\ list_calls' = list_calls + 1
    /\ UNCHANGED <<polled, serverVars, twoVars, provider_tools, mcp_tools, chat_requests,
                   MAX_ITERATIONS, user_query, elapsed, sse_open, session_open,
                   ollama_client, ollama_tools, messages, iteration, llm_message,
                   tool_index, outcome, result, raised, reported, failed,
                   chat_calls, dispatched, outcomes>>

\* await session.initialize() raises.
InitializeRaises ==
    /\ pc = "initialize"
    /\ \E e \in ProviderErrors : Abort(e, "initialize")
    /\ UNCHANGED <<polled, serverVars, twoVars, provider_tools, mcp_tools, chat_requests,
                   MAX_ITERATIONS, user_query, elapsed, ollama_client,
                   ollama_tools, messages, iteration, llm_message, tool_index,
                   result, chat_calls, list_calls, dispatched, outcomes>>

\* await session.list_tools() returns: the tools are converted, the
\* transcript is seeded, the ollama client is created, iteration = 0.
ListToolsReturns ==
    /\ pc = "list_tools"
    /\ mcp_tools' = provider_tools
    /\ ollama_tools' = ConvertAll(mcp_tools')
    /\ messages' = SeedMessages(user_query)
    /\ ollama_client' = "open"
    /\ iteration' = 0
    /\ pc' = "while"
    /\ UNCHANGED <<polled, serverVars, twoVars, provider_tools, chat_requests,
                   MAX_ITERATIONS, user_query, elapsed, sse_open, session_open,
                   llm_message, tool_index, outcome, result, raised, reported,
                   failed, chat_calls, list_calls, dispatched, outcomes>>

\* An exception of list_tools taken as "no tools": the session goes on.
ListToolsRaisesAndSessionGoesOn ==
    /\ pc = "list_tools"
    /\ failed' = "list_tools"
    /\ mcp_tools' = <<>>
    /\ ollama_tools' = <<>>
    /\ messages' = SeedMessages(user_query)
    /\ ollama_client' = "open"
    /\ iteration' = 0
    /\ pc' = "while"
    /\ UNCHANGED <<polled, serverVars, twoVars, provider_tools, chat_requests,
                   MAX_ITERATIONS, user_query, elapsed, sse_open, session_open,
                   llm_message, tool_index, outcome, result, raised, reported,
                   chat_calls, list_calls, dispatched, outcomes>>

\* await session.list_tools() raises.
ListToolsRaises ==
    /\ pc = "list_tools"
    /\ \E e \in ProviderErrors : Abort(e, "list_tools")
    /\ UNCHANGED <<polled, serverVars, twoVars, provider_tools, mcp_tools, chat_requests,
                   MAX_ITERATIONS, user_query, elapsed, ollama_client,
                   ollama_tools, messages, iteration, llm_message, tool_index,
                   result, chat_calls, list_calls, dispatched, outcomes>>

\* The tools of a chat call looked up again at the provider for each call.
ChatToolsListedAgain == ConvertAll(provider_tools)

\* tools=ollama_tools: the tools argument of a chat call.
ChatTools == ollama_tools

\* The keyword arguments of ollama_client.chat that depend on the session.
ChatRequest == [messages |-> messages, tools |-> ChatTools]

\* An iteration that calls chat without counting itself.
LoopEnterUncounted ==
    /\ pc = "while"
    /\ WhileCondition
    /\ chat_calls' = chat_calls + 1
    /\ chat_requests' = Append(chat_requests, ChatRequest)
    /\ pc' = "chat"
    /\ UNCHANGED <<polled, serverVars, twoVars, provider_tools, mcp_tools, iteration,
                   MAX_ITERATIONS, user_query, elapsed, sse_open, session_open,
                   ollama_client, ollama_tools, messages, llm_message, tool_index,
                   outcome, result, raised, reported, failed, list_calls,
                   dispatched, outcomes>>

\* while iteration < MAX_ITERATIONS: iteration += 1, and chat is called.
LoopEnter ==
    /\ pc = "while"
    /\ WhileCondition
    /\ iteration' = iteration + 1
    /\ chat_calls' = chat_calls + 1
    /\ chat_requests' = Append(chat_requests, ChatRequest)
    /\ pc' = "chat"
    /\ UNCHANGED <<polled, serverVars, twoVars, provider_tools, mcp_tools,
                   MAX_ITERATIONS, user_query, elapsed, sse_open, session_open,
                   ollama_client, ollama_tools, messages, llm_message, tool_index,
                   outcome, result, raised, reported, failed, list_calls,
                   dispatched, outcomes>>

\* The while condition is false: the ceiling text is returned.
LoopExhausted ==
    /\ pc = "while"
    /\ ~WhileCondition
    /\ Return("Exhausted", PyStr(EXHAUSTED_TEXT))
    /\ UNCHANGED <<polled, serverVars, twoVars, provider_tools, mcp_tools, chat_requests,
                   MAX_ITERATIONS, user_query, elapsed, ollama_client,
                   ollama_tools, messages, iteration, llm_message, tool_index,
                   chat_calls, list_calls, dispatched, outcomes>>

\* chat returns a message without tool calls: it is appended and its
\* content returned.
ChatReturnsFinal ==
    /\ pc = "chat"
    /\ \E m \in LlmMessages :
          /\ NoToolCalls(m)
          /\ llm_message' = m
          /\ messages' = AppendMessage(messages, AssistantMessage(m))
          /\ Return("Completed", FinalResult(m))
    /\ UNCHANGED <<polled, serverVars, twoVars, provider_tools, mcp_tools, chat_requests,
                   MAX_ITERATIONS, user_query, elapsed, ollama_client,
                   ollama_tools, iteration, tool_index, chat_calls, list_calls,
                   dispatched, outcomes>>

\* chat returns a message with tool calls: it is appended and the for loop
\* over its tool calls starts.
ChatReturnsToolCalls ==
    /\ pc = "chat"
    /\ \E m \in LlmMessages :
          /\ ~NoToolCalls(m)
          /\ llm_message' = m
          /\ messages' = AppendMessage(messages, AssistantMessage(m))
          /\ pc' = IF Len(m.tool_calls) > 0 THEN "for" ELSE "while"
    /\ tool_index' = 1
    /\ UNCHANGED <<polled, serverVars, twoVars, provider_tools, mcp_tools, chat_requests,
                   MAX_ITERATIONS, user_query, elapsed, sse_open, session_open,
                   ollama_client, ollama_tools, iteration, outcome, result,
                   raised, reported, failed, chat_calls, list_calls, dispatched,
                   outcomes>>

\* An exception of chat caught inside the loop, which then goes on.
ChatRaisesAndLoopGoesOn ==
    /\ pc = "chat"
    /\ pc' = "while"
    /\ failed' = "chat"
    /\ UNCHANGED <<polled, serverVars, twoVars, provider_tools, mcp_tools, chat_requests,
                   MAX_ITERATIONS, user_query, elapsed, sse_open, session_open,
                   ollama_client, ollama_tools, messages, iteration, llm_message,
                   tool_index, outcome, result, raised, reported, chat_calls,
                   list_calls, dispatched, outcomes>>

\* chat raises.
ChatRaises ==
    /\ pc = "chat"
    /\ \E e \in EngineErrors : Abort(e, "chat")
    /\ UNCHANGED <<polled, serverVars, twoVars, provider_tools, mcp_tools, chat_requests,
                   MAX_ITERATIONS, user_query, elapsed, ollama_client,
                   ollama_tools, messages, iteration, llm_message, tool_index,
                   result, chat_calls, list_calls, dispatched, outcomes>>

\* The requests of a decision taken last first.
CurrentToolCallReversed ==
    llm_message.tool_calls[Len(llm_message.tool_calls) + 1 - tool_index]

\* The tool_call of the current pass of the for loop.
CurrentToolCall == llm_message.tool_calls[tool_index]

\* for tool_call in llm_message.tool_calls: the arguments are normalized and
\* call_tool is issued.
CallTool ==
    /\ pc = "for"
    /\ tool_index <= Len(llm_message.tool_calls)
    /\ dispatched' = Append(dispatched, Invocation(CurrentToolCall))
    /\ pc' = "call_tool"
    /\ UNCHANGED <<polled, serverVars, twoVars, provider_tools, mcp_tools, chat_requests,
                   MAX_ITERATIONS, user_query, elapsed, sse_open, session_open,
                   ollama_client, ollama_tools, messages, iteration, llm_message,
                   tool_index, outcome, result, raised, reported, failed,
                   chat_calls, list_calls, outcomes>>

\* An invocation that raised leaves no tool message behind.
RecordOutcomeDropsErrors(o) ==
    /\ outcomes' = Append(outcomes, o)
    /\ messages' = IF o.kind = "raised" THEN messages
                   ELSE AppendMessage(messages, ToolMessage(ToolResultText(o)))
    /\ tool_index' = tool_index + 1
    /\ pc' = IF tool_index < Len(llm_message.tool_calls) THEN "for" ELSE "while"

\* The for loop left as soon as one invocation raises.
RecordOutcomeBreakOnError(o) ==
    /\ outcomes' = Append(outcomes, o)
    /\ messages' = AppendMessage(messages, ToolMessage(ToolResultText(o)))
    /\ tool_index' = tool_index + 1
    /\ pc' = IF tool_index < Len(llm_message.tool_calls) /\ o.kind = "returned"
             THEN "for" ELSE "while"

\* What follows an invocation that ended with o: its text is appended as a
\* tool message and the for loop moves on, to the next tool call or, after
\* the last one, back to the while condition.
RecordOutcome(o) ==
    /\ outcomes' = Append(outcomes, o)
    /\ messages' = AppendMessage(messages, ToolMessage(ToolResultText(o)))
    /\ tool_index' = tool_index + 1
    /\ pc' = IF tool_index < Len(llm_message.tool_calls) THEN "for" ELSE "while"

\* call_tool returns a response. The server may offer other tools by then.
CallToolReturns ==
    /\ pc = "call_tool"
    /\ \E content \in ToolContents : RecordOutcome(Returned(content))
    /\ provider_tools' \in ProviderListings
    /\ UNCHANGED <<polled, serverVars, twoVars, mcp_tools, chat_requests,
                   MAX_ITERATIONS, user_query, elapsed, sse_open, session_open,
                   ollama_client, ollama_tools, iteration, llm_message, outcome,
                   result, raised, reported, failed, chat_calls, list_calls,
                   dispatched>>

\* call_tool raises: the exception is caught inside the for loop.
CallToolRaises ==
    /\ pc = "call_tool"
    /\ \E e \in ToolErrors : RecordOutcome(Raised(e))
    /\ provider_tools' \in ProviderListings
    /\ UNCHANGED <<polled, serverVars, twoVars, mcp_tools, chat_requests,
                   MAX_ITERATIONS, user_query, elapsed, sse_open, session_open,
                   ollama_client, ollama_tools, iteration, llm_message, outcome,
                   result, raised, reported, failed, chat_calls, list_calls,
                   dispatched>>

Next ==
    \/ WaitForOllamaPoll
    \/ WaitForOllamaRetry
    \/ WaitForOllamaReady
    \/ WaitForOllamaTimeout
    \/ SseClientConnects
    \/ SseClientRaises
    \/ InitializeReturns
    \/ InitializeRaises
    \/ ListToolsReturns
    \/ ListToolsRaises
    \/ LoopEnter
    \/ LoopExhausted
    \/ ChatReturnsFinal
    \/ ChatReturnsToolCalls
    \/ ChatRaises
    \/ CallTool
    \/ CallToolReturns
    \/ CallToolRaises

Spec == Init /\ [][Next]_vars

\* ------------------------------------------------- reading the transcript
IsAssistant(m) == m.role = "assistant"
IsTool(m) == m.role = "tool"

\* The tool messages of the transcript, in order.
ToolMessages == SelectSeq(messages, IsTool)
\* The assistant messages of the transcript, in order.
AssistantMessages == SelectSeq(messages, IsAssistant)

\* Index of the last assistant message, 0 when there is none.
LastAssistant ==
    LET S == {i \in 1..Len(messages) : IsAssistant(messages[i])} IN
    IF S = {} THEN 0 ELSE CHOOSE i \in S : \A j \in S : j <= i

RECURSIVE RequestsIn(_, _)
\* Number of tool requests recorded in the first n assistant messages of as.
RequestsIn(as, n) ==
    IF n = 0 THEN 0 ELSE RequestsIn(as, n - 1) + Len(as[n].tool_calls)

\* Number of tool requests the engine has made so far.
TotalRequests == RequestsIn(AssistantMessages, Len(AssistantMessages))

\* The engine answered every call so far, each time with tool requests.
EngineAlwaysRequestedTools ==
    /\ Collaborator(failed) # "engine"
    /\ \A i \in 1..Len(messages) :
          IsAssistant(messages[i]) => Len(messages[i].tool_calls) > 0

\* The session got as far as the agent loop.
LoopStarted == Len(messages) > 0

\* --------------------------------------------------------------- claims

\* C1: with a ceiling of at least 1 and an engine that answers every call
\* with tool requests, the session ends Exhausted after exactly
\* MAX_ITERATIONS iterations and as many chat calls; the counter and the
\* number of chat calls never exceed the ceiling, and the session is never
\* stuck before it has ended.
C1_TerminationBound ==
    /\ iteration <= (IF MAX_ITERATIONS > 0 THEN MAX_ITERATIONS ELSE 0)
    /\ chat_calls <= (IF MAX_ITERATIONS > 0 THEN MAX_ITERATIONS ELSE 0)
    /\ (pc = "done" /\ LoopStarted /\ MAX_ITERATIONS >= 1
            /\ EngineAlwaysRequestedTools)
          => /\ outcome = "Exhausted"
             /\ iteration = MAX_ITERATIONS
             /\ chat_calls = MAX_ITERATIONS
             /\ Len(AssistantMessages) = MAX_ITERATIONS
    /\ pc # "done" => ENABLED Next

C1_Witness ==
    /\ outcome = "Exhausted"
    /\ MAX_ITERATIONS = MaxCeiling
    /\ iteration = MAX_ITERATIONS
    /\ EngineAlwaysRequestedTools

\* C2: once the engine's decision carries no tool request, the session has
\* ended Completed with that decision's text as its result: the decision is
\* the last message of the transcript, no tool was invoked for it, no chat
\* call follows it, and no further step is possible; also with no tool
\* discovered.
C2_FinalAnswerCompletes ==
    (LastAssistant > 0 /\ Len(messages[LastAssistant].tool_calls) = 0)
       => /\ pc = "done"
          /\ outcome = "Completed"
          /\ result = llm_message.content
          /\ messages[Len(messages)].content = OrEmpty(llm_message.content)
          /\ LastAssistant = Len(messages)
          /\ Len(dispatched) = TotalRequests
          /\ Len(outcomes) = TotalRequests
          /\ chat_calls = iteration
          /\ chat_calls = Len(AssistantMessages)
          /\ ~ENABLED Next

C2_Witness ==
    /\ outcome = "Completed"
    /\ ollama_tools = <<>>
    /\ iteration = 1
    /\ dispatched = <<>>
    /\ result = PyNone

\* C3: at the end of an iteration whose decision carried N >= 1 requests,
\* the N messages that follow the decision's assistant message are tool
\* messages, the i-th one carrying the text of what the i-th invocation
\* ended with (returned or raised), and the i-th invocation issued for the
\* decision is the one for its i-th request.
C3_ResultsInRequestOrder ==
    (pc = "while" /\ LastAssistant > 0)
       => LET a == LastAssistant
              N == Len(messages[a].tool_calls)
              base == Len(outcomes) - N
          IN  /\ N >= 1
              /\ Len(messages) = a + N
              /\ Len(dispatched) = Len(outcomes)
              /\ base >= 0
              /\ \A i \in 1..N :
                    /\ messages[a + i] = ToolMessage(ToolResultText(outcomes[base + i]))
                    /\ dispatched[base + i] = Invocation(messages[a].tool_calls[i])

C3_Witness ==
    /\ pc = "while"
    /\ LastAssistant > 0
    /\ Len(messages[LastAssistant].tool_calls) = 2
    /\ outcomes[Len(outcomes) - 1].kind = "raised"
    /\ outcomes[Len(outcomes)].kind = "returned"
    /\ messages[Len(messages)].content # messages[Len(messages) - 1].content

\* C4: an exception raised by call_tool never ends the session: its text,
\* prefixed as an error, is the tool message of that invocation, every
\* request of the batch is invoked and recorded by the end of the
\* iteration, and once a tool has been invoked the session can only end
\* FatalError through the engine.
C4_ToolFailureContained ==
    /\ Len(ToolMessages) = Len(outcomes)
    /\ \A i \in 1..Len(outcomes) :
          outcomes[i].kind = "raised"
             => ToolMessages[i].content = TOOL_ERROR_PREFIX \o outcomes[i].error.msg
    /\ (pc \in {"while", "chat", "done"} /\ LoopStarted)
          => /\ Len(dispatched) = TotalRequests
             /\ Len(outcomes) = TotalRequests
    /\ (outcome = "FatalError" /\ Len(dispatched) > 0) => failed = "chat"
    /\ failed # "call_tool"

C4_Witness ==
    /\ pc = "done"
    /\ outcome = "Exhausted"
    /\ Len(outcomes) >= 2
    /\ outcomes[1].kind = "raised"
    /\ outcomes[2].kind = "returned"
    /\ Len(messages[3].tool_calls) = 2

\* C5: every invocation issued to the provider carries a dict as its
\* arguments, whatever the raw arguments of the request were.
C5_ArgumentsAlwaysMap ==
    \A i \in 1..Len(dispatched) : isinstance(dispatched[i].arguments, "dict")

\* C6: once a chat call has raised, the session has ended FatalError: an
\* exception has left run_soc_agent and no value was returned; the failed
\* call is the last one (one more call than decisions recorded, none
\* repeated), every invocation issued belongs to an earlier decision, and no
\* further step is possible.
C6_EngineFailureIsFatal ==
    failed = "chat"
       => /\ pc = "done"
          /\ outcome = "FatalError"
          /\ result = NoResult
          /\ raised # NoException
          /\ chat_calls = iteration
          /\ chat_calls = Len(AssistantMessages) + 1
          /\ Len(dispatched) = TotalRequests
          /\ Len(outcomes) = TotalRequests
          /\ Len(messages) = 2 + Len(AssistantMessages) + TotalRequests
          /\ ~ENABLED Next

C6_Witness ==
    /\ failed = "chat"
    /\ outcome = "FatalError"
    /\ iteration = 2
    /\ Len(dispatched) = 2
    /\ raised.type = "ResponseError"

\* C7: the value returned at the ceiling differs from every value returned
\* on Completed, and no value at all is returned on FatalError.
C7_ExhaustedResultDistinct ==
    /\ outcome = "Exhausted" => result = PyStr(EXHAUSTED_TEXT) /\ raised = NoException
    /\ outcome = "Completed" => result # PyStr(EXHAUSTED_TEXT)
    /\ outcome = "FatalError" => result = NoResult /\ raised # NoException

\* C8: once connecting, initialize or list_tools has raised, the session has
\* ended FatalError before the loop: no chat call, no iteration, no tool
\* invocation, an empty transcript, no value returned, and no further step
\* is possible; and the provider is fatal to a session only there.
C8_StartupFailureIsFatal ==
    /\ failed \in {"sse_client", "initialize", "list_tools"}
          => /\ pc = "done"
             /\ outcome = "FatalError"
             /\ chat_calls = 0
             /\ iteration = 0
             /\ dispatched = <<>>
             /\ messages = <<>>
             /\ ollama_client = "none"
             /\ result = NoResult
             /\ raised # NoException
             /\ ~ENABLED Next
    /\ (outcome = "FatalError" /\ Collaborator(failed) = "provider")
          => failed \in {"sse_client", "initialize", "list_tools"}

C8_Witness ==
    /\ failed = "list_tools"
    /\ outcome = "FatalError"
    /\ list_calls = 1
    /\ raised.type = "McpError"

\* The collaborator an error text names: the text of line 344 names the MCP
\* server, and str(e) names whoever raised e.
Blamed(text) ==
    CASE text = MCP_UNREACHABLE_TEXT -> "provider"
      [] text \in {e.msg : e \in ProviderErrors} -> "provider"
      [] text \in {e.msg : e \in EngineErrors} -> "engine"
      [] OTHER -> "none"

\* C9: the error reported for a session that ended FatalError names the
\* collaborator whose call raised.
C9_ErrorNamesFailedCollaborator ==
    outcome = "FatalError" => Blamed(reported) = Collaborator(failed)

\* s is a prefix of t.
IsPrefix(s, t) == Len(s) <= Len(t) /\ SubSeq(t, 1, Len(s)) = s

\* C10: every step leaves the transcript it found as a prefix of the
\* transcript it leaves: messages are only ever added at the end.
C10_TranscriptAppendOnly == [][IsPrefix(messages, messages')]_vars

C10_Witness ==
    /\ Len(messages) = 7
    /\ Len(AssistantMessages) = 2
    /\ Len(ToolMessages) = 3

\* C11: list_tools is called at most once in a session, and it has been
\* called and has answered before the first chat call; every chat call of
\* the session gets the tools converted from that one listing, whatever the
\* MCP server offers by the time of the call.
C11_ToolsListedOnceAndFixed ==
    /\ list_calls <= 1
    /\ Len(chat_requests) = chat_calls
    /\ chat_calls > 0 => (list_calls = 1 /\ LoopStarted)
    /\ \A i \in 1..Len(chat_requests) :
          chat_requests[i].tools = ConvertAll(mcp_tools)

\* The second chat call is out while the server offers other tools than it
\* listed.
C11_Witness ==
    /\ pc = "chat"
    /\ Len(chat_requests) = 2
    /\ provider_tools # mcp_tools
    /\ chat_requests[1].tools = chat_requests[2].tools
    /\ Len(dispatched) > 0

RECURSIVE Flatten(_, _)
\* The tool requests of the first n assistant messages of as, in order.
Flatten(as, n) ==
    IF n = 0 THEN <<>> ELSE Flatten(as, n - 1) \o as[n].tool_calls

\* Every tool request the engine has made so far, in order.
AllRequests == Flatten(AssistantMessages, Len(AssistantMessages))

\* Raw arguments that are a str json.loads rejects.
Undecodable(raw) == isinstance(raw, "str") /\ ~json_loads(raw).ok

\* C12: a request whose raw arguments are a str that does not decode is
\* dispatched once, under its own name and with the empty dict; it gets one
\* tool message like every other request; no exception of the decoding
\* ends the session; and once a batch is through, every request of it has
\* been dispatched.
C12_UndecodableArgumentsBecomeEmpty ==
    /\ Len(dispatched) <= Len(AllRequests)
    /\ \A i \in 1..Len(dispatched) :
          Undecodable(AllRequests[i].function.arguments)
             => dispatched[i] = [name |-> AllRequests[i].function.name,
                                 arguments |-> PyDict(<<>>)]
    /\ Len(ToolMessages) = Len(outcomes)
    /\ Len(outcomes) = Len(dispatched) - (IF pc = "call_tool" THEN 1 ELSE 0)
    /\ pc \in {"while", "chat", "done"} => Len(dispatched) = Len(AllRequests)
    /\ (outcome = "FatalError" /\ LoopStarted) => failed = "chat"

\* A batch of two whose first request does not decode is through, and the
\* next chat call is out.
C12_Witness ==
    /\ pc = "chat"
    /\ iteration = 2
    /\ Len(AllRequests) = 2
    /\ Len(llm_message.tool_calls) = 2
    /\ Undecodable(AllRequests[1].function.arguments)
    /\ dispatched[1].arguments = PyDict(<<>>)
    /\ Len(dispatched) = 2
    /\ Len(ToolMessages) = 2

\* The text of the first block of content that has a text, "" when no block
\* has one.
FirstText(content) ==
    LET T == {i \in 1..Len(content) : "text" \in DOMAIN content[i]} IN
    IF T = {} THEN ""
    ELSE content[CHOOSE i \in T : \A j \in T : i <= j].text

\* C13: for every invocation that returned, the tool message is the
\* sentinel when the response has no content block, and otherwise the text
\* of the first block of the response that is textual.
C13_FirstTextualBlockIsTheResult ==
    \A i \in 1..Len(outcomes) :
       outcomes[i].kind = "returned"
          => ToolMessages[i].content =
                IF Len(outcomes[i].content) = 0
                THEN NO_CONTENT_TEXT
                ELSE FirstText(outcomes[i].content)

\* The ceiling as the loop sees it: a negative MAX_ITERATIONS admits no
\* iteration, like 0.
Ceiling == IF MAX_ITERATIONS > 0 THEN MAX_ITERATIONS ELSE 0

\* C14 as stated: once the counter exists, the chat calls issued so far
\* equal it and it never exceeds MAX_ITERATIONS.
C14_CounterNeverExceedsMaxIterations ==
    LoopStarted => (chat_calls = iteration /\ iteration <= MAX_ITERATIONS)

\* C14: in every state the number of chat calls issued equals the iteration
\* counter and the counter is at most the ceiling, where a negative
\* MAX_ITERATIONS counts as 0; the counter is 0 when the loop is reached,
\* and a step either leaves it or adds exactly 1 to it together with
\* exactly one chat call.
C14_OneChatCallPerIteration ==
    /\ [](chat_calls = iteration /\ iteration >= 0 /\ iteration <= Ceiling)
    /\ [][/\ (pc = "list_tools" /\ pc' = "while") => iteration' = 0
          /\ \/ iteration' = iteration /\ chat_calls' = chat_calls
             \/ /\ iteration' = iteration + 1
                /\ chat_calls' = chat_calls + 1
                /\ pc' = "chat"]_vars

\* The second iteration's chat call is out under a ceiling of 2.
C14_Witness ==
    /\ pc = "chat"
    /\ iteration = 2
    /\ chat_calls = 2
    /\ MAX_ITERATIONS = 2

\* msgs starts with the system prompt followed by the user's query.
SeededWith(msgs, query) ==
    /\ Len(msgs) >= 2
    /\ msgs[1] = [role |-> "system", content |-> SYSTEM_PROMPT]
    /\ msgs[2] = [role |-> "user", content |-> query]

\* C15: the transcript handed to the first chat call is the system message
\* followed by the user message whose text is user_query, and nothing else;
\* the transcript handed to every later chat call, and the transcript of
\* every state from the first chat call on, starts with the same two.
C15_SeedMessagesStayFirst ==
    /\ chat_calls > 0 => SeededWith(messages, user_query)
    /\ \A i \in 1..Len(chat_requests) :
          SeededWith(chat_requests[i].messages, user_query)
    /\ Len(chat_requests) > 0 => Len(chat_requests[1].messages) = 2

\* The second chat call is out with a transcript of five messages for the
\* query about one IP.
C15_Witness ==
    /\ Len(chat_requests) = 2
    /\ Len(chat_requests[2].messages) = 5
    /\ user_query = "Is IP 45.33.32.156 a threat? Investigate and report"
    /\ pc = "done"
    /\ Len(messages) > 5

\* The step is a chat call returning.
ChatReturned == pc = "chat" /\ pc' # "chat" /\ failed' # "chat"

\* The assistant message that carries decision m: its text, "" for none,
\* and its requests by name and arguments in their order.
Carries(msg, m) ==
    /\ msg.role = "assistant"
    /\ msg.content = (IF m.content = PyNone THEN "" ELSE m.content.s)
    /\ Len(msg.tool_calls) = Len(m.tool_calls)
    /\ \A i \in 1..Len(m.tool_calls) :
          /\ msg.tool_calls[i].function.name = m.tool_calls[i].function.name
          /\ msg.tool_calls[i].function.arguments
                = m.tool_calls[i].function.arguments

\* C16: the step in which a chat call returns appends exactly one message,
\* the assistant message carrying the decision, and invokes no tool and
\* ends no invocation; no other step adds an assistant message; so a
\* session that ended Completed has the final decision as its last message.
C16_DecisionRecordedBeforeUse ==
    /\ [][ChatReturned
             => /\ Len(messages') = Len(messages) + 1
                /\ SubSeq(messages', 1, Len(messages)) = messages
                /\ Carries(messages'[Len(messages')], llm_message')
                /\ dispatched' = dispatched
                /\ outcomes' = outcomes]_vars
    /\ [][~ChatReturned
             => Len(SelectSeq(messages', IsAssistant))
                   = Len(SelectSeq(messages, IsAssistant))]_vars
    /\ [](outcome = "Completed"
             => /\ Carries(messages[Len(messages)], llm_message)
                /\ messages[Len(messages)].tool_calls = <<>>)
    /\ [](Len(dispatched) <= Len(AllRequests))

\* A decision with text and two requests was recorded, then a final answer
\* with text.
C16_Witness ==
    /\ outcome = "Completed"
    /\ Len(AssistantMessages) = 2
    /\ AssistantMessages[1].content = "I will check the alerts first."
    /\ Len(AssistantMessages[1].tool_calls) = 2
    /\ AssistantMessages[2].content = "Risk level HIGH: BLOCK 45.33.32.156"
    /\ AssistantMessages[2].tool_calls = <<>>
    /\ Len(dispatched) = 2

\* C17: when the session has ended, the SSE stream and the MCP session are
\* closed and the ollama client is no longer open.
C17_ConnectionsReleasedAtEnd ==
    pc = "done" => (~sse_open /\ ~session_open /\ ollama_client # "open")

\* The engine answered every call so far with exactly one tool request.
EngineAlwaysRequestedOneTool ==
    /\ Collaborator(failed) # "engine"
    /\ \A i \in 1..Len(AssistantMessages) :
          Len(AssistantMessages[i].tool_calls) = 1

\* C19: a session with MAX_ITERATIONS >= 1 that has ended, in which the
\* engine answered every chat call with exactly one tool request, ended
\* Exhausted after exactly MAX_ITERATIONS chat calls and MAX_ITERATIONS
\* invocations, each with its tool message, the last message of the
\* transcript being the tool message of the last iteration.
C19_OneToolPerIterationUpToCeiling ==
    (pc = "done" /\ LoopStarted /\ MAX_ITERATIONS >= 1
                 /\ EngineAlwaysRequestedOneTool)
       => /\ outcome = "Exhausted"
          /\ chat_calls = MAX_ITERATIONS
          /\ Len(AssistantMessages) = MAX_ITERATIONS
          /\ Len(dispatched) = MAX_ITERATIONS
          /\ Len(outcomes) = MAX_ITERATIONS
          /\ Len(ToolMessages) = MAX_ITERATIONS
          /\ Len(messages) = 2 + 2 * MAX_ITERATIONS
          /\ IsTool(messages[Len(messages)])
          /\ messages[Len(messages)].content
                = ToolResultText(outcomes[MAX_ITERATIONS])
          /\ dispatched[MAX_ITERATIONS].name
                = AssistantMessages[MAX_ITERATIONS].tool_calls[1].function.name

\* Two iterations of one request each under a ceiling of 2, the last
\* invocation raising.
C19_Witness ==
    /\ pc = "done"
    /\ MAX_ITERATIONS = 2
    /\ EngineAlwaysRequestedOneTool
    /\ Len(AssistantMessages) = 2
    /\ outcome = "Exhausted"
    /\ Len(dispatched) = 2
    /\ outcomes[2].kind = "raised"
    /\ IsTool(messages[6])

\* C20: the converted capability set has one entry per listed descriptor,
\* in the listing's order, each of type "function" with exactly the
\* descriptor's name, description and, as parameters, its inputSchema; the
\* listed descriptors are what the provider listed and no later step
\* changes them.
C20_ConversionPassesDescriptorThrough ==
    /\ [](/\ Len(ollama_tools) = Len(mcp_tools)
          /\ mcp_tools \in ProviderListings
          /\ \A i \in 1..Len(mcp_tools) :
                /\ DOMAIN ollama_tools[i] = {"type", "function"}
                /\ ollama_tools[i].type = "function"
                /\ DOMAIN ollama_tools[i].function
                      = {"name", "description", "parameters"}
                /\ ollama_tools[i].function.name = mcp_tools[i].name
                /\ ollama_tools[i].function.description
                      = mcp_tools[i].description
                /\ ollama_tools[i].function.parameters
                      = mcp_tools[i].inputSchema)
    /\ [][pc # "list_tools"
             => (mcp_tools' = mcp_tools /\ ollama_tools' = ollama_tools)]_vars

\* Two descriptors were listed and converted, and the session ran on.
C20_Witness ==
    /\ Len(mcp_tools) = 2
    /\ Len(ollama_tools) = 2
    /\ ollama_tools[2].function.parameters
          = [type |-> "object", properties |-> <<"ip_address">>]
    /\ chat_calls = 1

\* ---------------------------------------------- sessions side by side
\* NumSessions calls of run_soc_agent as tasks of one process.  messages,
\* iteration and llm_message are locals of each call; MAX_ITERATIONS is the
\* one module-level value all of them read.  A call is followed from its
\* start to its end by the steps of the single session, the startup taken
\* as one step; the steps of different calls interleave freely, which
\* covers every interleaving a scheduler of the tasks can produce.

\* The query given to call s.
TaskQuery(s) == "Investigate alert " \o ToString(s)

\* What the engine can answer call s: a final answer, or one or two
\* requests for the details of alerts; each names the call it answers.
TaskAnswers(s) ==
    { [content |-> PyStr("Report on alert " \o ToString(s)), tool_calls |-> <<>>],
      [content |-> PyNone,
       tool_calls |-> <<ToolCall("get_alert_details",
                                 PyDict(<< <<"alert_id", PyInt(s)>> >>))>>],
      [content |-> PyStr("Checking alert " \o ToString(s)),
       tool_calls |-> <<ToolCall("get_alert_details",
                                 PyDict(<< <<"alert_id", PyInt(s)>> >>)),
                        ToolCall("get_recent_alerts", PyDict(<<>>))>>] }

\* What an invocation of call s can end with.
TaskOutcomes(s) ==
    {Returned(<<TextContent("details of alert " \o ToString(s))>>)}
       \cup {Raised(e) : e \in ToolErrors}

\* An append to one transcript that every call shares.
TaskAppendShared(ss, s, m) ==
    [x \in Sessions |-> [ss[x] EXCEPT !.messages = Append(@, m)]]

\* messages.append(m) in call s: messages is a local of the call.
TaskAppend(ss, s, m) == [ss EXCEPT ![s].messages = Append(@, m)]

\* Call s ends.
TaskEnds(ss, s, how) == [ss EXCEPT ![s].pc = "done", ![s].outcome = how]

\* Call s gets through startup to the loop: messages = [system, user] and
\* iteration = 0.
TaskStarts(s) ==
    /\ sessions[s].pc = "start"
    /\ sessions' = [sessions EXCEPT ![s].pc = "while",
                                    ![s].messages = SeedMessages(TaskQuery(s)),
                                    ![s].iteration = 0]
    /\ actor' = s
    /\ UNCHANGED <<served, oneVars, MAX_ITERATIONS, serverVars>>

\* Startup of call s raises.
TaskStartRaises(s) ==
    /\ sessions[s].pc = "start"
    /\ sessions' = TaskEnds(sessions, s, "FatalError")
    /\ actor' = s
    /\ UNCHANGED <<served, oneVars, MAX_ITERATIONS, serverVars>>

\* while iteration < MAX_ITERATIONS: iteration += 1, and chat is called.
TaskLoopEnter(s) ==
    /\ sessions[s].pc = "while"
    /\ sessions[s].iteration < MAX_ITERATIONS
    /\ sessions' = [sessions EXCEPT ![s].pc = "chat",
                                    ![s].iteration = @ + 1]
    /\ served' = [served EXCEPT ![s].chats = @ + 1]
    /\ actor' = s
    /\ UNCHANGED <<oneVars, MAX_ITERATIONS, serverVars>>

\* The while condition of call s is false.
TaskLoopExhausted(s) ==
    /\ sessions[s].pc = "while"
    /\ ~(sessions[s].iteration < MAX_ITERATIONS)
    /\ sessions' = TaskEnds(sessions, s, "Exhausted")
    /\ actor' = s
    /\ UNCHANGED <<served, oneVars, MAX_ITERATIONS, serverVars>>

\* chat returns to call s: the decision is appended; a final answer ends
\* the call, otherwise call_tool is issued for the first request.
TaskChatReturns(s) ==
    /\ sessions[s].pc = "chat"
    /\ \E m \in TaskAnswers(s) :
          /\ served' = [served EXCEPT ![s].decisions = Append(@, m)]
          /\ LET recorded == TaskAppend(sessions, s, AssistantMessage(m)) IN
             sessions' =
                IF NoToolCalls(m)
                THEN TaskEnds([recorded EXCEPT ![s].llm_message = m],
                              s, "Completed")
                ELSE [recorded EXCEPT ![s].llm_message = m,
                                      ![s].tool_index = 1,
                                      ![s].pc = "call_tool"]
    /\ actor' = s
    /\ UNCHANGED <<oneVars, MAX_ITERATIONS, serverVars>>

\* chat raises in call s.
TaskChatRaises(s) ==
    /\ sessions[s].pc = "chat"
    /\ sessions' = TaskEnds(sessions, s, "FatalError")
    /\ actor' = s
    /\ UNCHANGED <<served, oneVars, MAX_ITERATIONS, serverVars>>

\* call_tool of call s returns or raises: the tool message is appended and
\* call_tool is issued for the next request, or the loop goes round.
TaskCallToolEnds(s) ==
    /\ sessions[s].pc = "call_tool"
    /\ \E o \in TaskOutcomes(s) :
          /\ served' = [served EXCEPT ![s].results = Append(@, o)]
          /\ LET recorded ==
                    TaskAppend(sessions, s, ToolMessage(ToolResultText(o)))
                 more == sessions[s].tool_index
                            < Len(sessions[s].llm_message.tool_calls) IN
             sessions' = [recorded EXCEPT
                             ![s].tool_index = @ + 1,
                             ![s].pc = IF more THEN "call_tool" ELSE "while"]
    /\ actor' = s
    /\ UNCHANGED <<oneVars, MAX_ITERATIONS, serverVars>>

\* The single-session variables rest; the ceiling admits an iteration.
InitTwo ==
    /\ Init
    /\ MAX_ITERATIONS >= 1
    /\ user_query = "Please review our recent security alerts."
    /\ provider_tools = <<>>

NextTwo ==
    \/ \E s \in Sessions : TaskStarts(s)
    \/ \E s \in Sessions : TaskStartRaises(s)
    \/ \E s \in Sessions : TaskLoopEnter(s)
    \/ \E s \in Sessions : TaskLoopExhausted(s)
    \/ \E s \in Sessions : TaskChatReturns(s)
    \/ \E s \in Sessions : TaskChatRaises(s)
    \/ \E s \in Sessions : TaskCallToolEnds(s)

SpecTwo == InitTwo /\ [][NextTwo]_vars

\* The transcript and counter of call s hold what call s alone was given:
\* before startup nothing; after it the two seed messages for its own
\* query, then as assistant messages exactly the decisions the engine
\* returned to it and as tool messages exactly the results of its own
\* invocations; and its counter is the number of its own chat calls.
OwnTranscript(s) ==
    LET t == sessions[s]
        as == SelectSeq(t.messages, IsAssistant)
        ts == SelectSeq(t.messages, IsTool)
        ds == served[s].decisions
        rs == served[s].results
    IN /\ t.iteration = served[s].chats
       /\ IF t.pc = "start" \/ (t.pc = "done" /\ served[s].chats = 0
                                              /\ t.outcome = "FatalError")
          THEN t.messages = <<>>
          ELSE /\ Len(t.messages) = 2 + Len(ds) + Len(rs)
               /\ t.messages[1] = [role |-> "system", content |-> SYSTEM_PROMPT]
               /\ t.messages[2] = [role |-> "user", content |-> TaskQuery(s)]
               /\ as = [i \in 1..Len(ds) |-> AssistantMessage(ds[i])]
               /\ ts = [i \in 1..Len(rs) |-> ToolMessage(ToolResultText(rs[i]))]

\* C18: with the calls of run_soc_agent interleaved in one process, every
\* call's transcript holds only its own seed messages, decisions and tool
\* results, every call's counter counts only its own chat calls, and a
\* step of one call leaves the transcript and the counter of every other
\* call as they were.
C18_SessionsDoNotShareState ==
    /\ [](\A s \in Sessions : OwnTranscript(s))
    /\ [][\A s \in Sessions :
             s # actor' => /\ sessions'[s].messages = sessions[s].messages
                           /\ sessions'[s].iteration = sessions[s].iteration
                           /\ served'[s] = served[s]]_vars

\* Both calls are waiting for a tool result at the same time, each in its
\* second iteration.
C18_Witness ==
    /\ \A s \in Sessions : /\ sessions[s].pc = "call_tool"
                           /\ sessions[s].iteration = 2
                           /\ Len(served[s].results) >= 1
    /\ sessions[1].messages # sessions[2].messages

\* ------------------------------------------------------- the MCP server
\* The four tools of src/mcp_server/server.py, followed through up to
\* MaxRequests calls.  The server keeps no state between calls; tool_log
\* records each call with its arguments and its answer.  A dict of the
\* server is a record here, True and False are TRUE and FALSE.

\* The text json.dumps(v, indent=2) returns.  The documents of the server
\* hold only str, int, bool, list and dict, on which json.dumps is
\* one-to-one, so the text is stood for by the document inside a str.
json_dumps(v) == [py |-> "str", json |-> v]

\* min(a, b)
min(a, b) == IF a <= b THEN a ELSE b

\* seq[:stop] with Python's rule for a negative stop.
SliceTo(seq, stop) ==
    LET n == Len(seq)
        k == IF stop < 0
             THEN (IF n + stop < 0 THEN 0 ELSE n + stop)
             ELSE (IF stop > n THEN n ELSE stop)
    IN SubSeq(seq, 1, k)

KNOWN_MALICIOUS_IPS ==
    [ip \in {"185.220.101.45", "192.42.116.16", "45.33.32.156",
             "198.199.10.1", "89.248.167.131"} |->
        CASE ip = "185.220.101.45" -> [threat |-> "Tor Exit Node", confidence |-> 90]
          [] ip = "192.42.116.16" -> [threat |-> "Port Scanning", confidence |-> 75]
          [] ip = "45.33.32.156" -> [threat |-> "Known C2 Server", confidence |-> 88]
          [] ip = "198.199.10.1" -> [threat |-> "Brute Force Source", confidence |-> 72]
          [] ip = "89.248.167.131" -> [threat |-> "Malware Distribution", confidence |-> 95]]

Alert(id, timestamp, source_ip, destination_ip, event_type, severity, attempts) ==
    [id |-> id, timestamp |-> timestamp, source_ip |-> source_ip,
     destination_ip |-> destination_ip, event_type |-> event_type,
     severity |-> severity, attempts |-> attempts]

SIMULATED_ALERTS ==
    << Alert("ALT-001", "2024-01-15T10:23:00Z", "185.220.101.45", "10.0.1.22",
             "SSH Brute Force", "HIGH", 847),
       Alert("ALT-002", "2024-01-15T10:25:00Z", "192.168.1.105", "10.0.1.5",
             "Port Scan", "MEDIUM", 12),
       Alert("ALT-003", "2024-01-15T10:27:00Z", "45.33.32.156", "10.0.1.44",
             "Suspicious Outbound Connection", "HIGH", 3),
       Alert("ALT-004", "2024-01-15T10:30:00Z", "10.0.0.52", "8.8.8.8",
             "Unusual DNS Volume", "MEDIUM", 1203),
       Alert("ALT-005", "2024-01-15T10:31:00Z", "89.248.167.131", "10.0.1.10",
             "Possible Data Exfiltration", "CRITICAL", 1) >>

\* The limits, addresses and alert ids the tools are called with, and the
\* moments datetime.now() can give.
Limits == (0 - MaxLimit)..MaxLimit
Addresses == DOMAIN KNOWN_MALICIOUS_IPS \cup {"8.8.8.8", "192.168.1.105", ""}
AlertIds == {SIMULATED_ALERTS[i].id : i \in 1..Len(SIMULATED_ALERTS)}
               \cup {"ALT-006", "alt-001", ""}
Clock == {"2024-01-15T10:40:00+00:00", "2024-01-15T10:41:07+00:00"}

\* What the request to ip-api.com can end with: client.get or
\* response.json() raises; or a JSON body arrives, under any HTTP status,
\* that is an object (a full answer, a sparse one, a "fail" answer, the
\* error body of a 500) or a list.
LookupReplies ==
    { [kind |-> "raises", msg |-> "timed out"],
      [kind |-> "raises", msg |-> "Expecting value: line 1 column 1 (char 0)"],
      [kind |-> "json_list", status_code |-> 200],
      [kind |-> "json", status_code |-> 200,
       data |-> [status |-> "success", country |-> "Germany",
                 regionName |-> "Hesse", city |-> "Frankfurt",
                 isp |-> "Tor Network", org |-> "Tor Exit",
                 as |-> "AS205100 F3 Netze e.V."]],
      [kind |-> "json", status_code |-> 200,
       data |-> [status |-> "success", country |-> "Germany"]],
      [kind |-> "json", status_code |-> 200,
       data |-> [status |-> "fail", message |-> "private range"]],
      [kind |-> "json", status_code |-> 500,
       data |-> [message |-> "Internal Server Error"]] }

\* data.get(key, default)
Get(data, key, default) == IF key \in DOMAIN data THEN data[key] ELSE default

get_recent_alerts(limit) ==
    LET alerts_to_return == SliceTo(SIMULATED_ALERTS, min(limit, 10)) IN
    json_dumps([alert_count |-> Len(alerts_to_return),
                alerts |-> alerts_to_return])

\* The except clause of lookup_ip_geolocation.
LookupFailed(msg) ==
    json_dumps([error |-> "Geolocation lookup failed: " \o msg])

lookup_ip_geolocation(ip_address, reply, now) ==
    CASE reply.kind = "raises" -> LookupFailed(reply.msg)
      [] reply.kind = "json_list" ->
            LookupFailed("'list' object has no attribute 'get'")
      [] reply.kind = "json" ->
            IF "status" \in DOMAIN reply.data /\ reply.data.status = "fail"
            THEN json_dumps(
                    [ip |-> ip_address,
                     error |-> "Could not geolocate IP - may be private/reserved range",
                     is_private |-> TRUE])
            ELSE json_dumps(
                    [ip |-> ip_address,
                     country |-> Get(reply.data, "country", "Unknown"),
                     region |-> Get(reply.data, "regionName", "Unknown"),
                     city |-> Get(reply.data, "city", "Unknown"),
                     isp |-> Get(reply.data, "isp", "Unknown"),
                     organization |-> Get(reply.data, "org", "Unknown"),
                     asn |-> Get(reply.data, "as", "Unknown"),
                     queried_at |-> now])

check_ip_reputation(ip_address, now) ==
    IF ip_address \in DOMAIN KNOWN_MALICIOUS_IPS
    THEN LET threat_info == KNOWN_MALICIOUS_IPS[ip_address] IN
         json_dumps([ip |-> ip_address,
                     is_malicious |-> TRUE,
                     threat_type |-> threat_info.threat,
                     confidence_score |-> threat_info.confidence,
                     recommendation |-> "BLOCK - High confidence threat indicator",
                     checked_at |-> now])
    ELSE json_dumps([ip |-> ip_address,
                     is_malicious |-> FALSE,
                     threat_type |-> "None detected",
                     confidence_score |-> 0,
                     recommendation |-> "MONITOR - No known threat indicators",
                     checked_at |-> now])

get_alert_details(alert_id) ==
    LET hits == {i \in 1..Len(SIMULATED_ALERTS) :
                    SIMULATED_ALERTS[i].id = alert_id} IN
    IF hits # {}
    THEN json_dumps(SIMULATED_ALERTS[CHOOSE i \in hits : \A j \in hits : i <= j])
    ELSE json_dumps([error |-> "Alert " \o alert_id \o " not found"])

\* What call_tool gets for a tool function that returned text: the text as
\* the one content block of the result.
ToolResponse(text) == Returned(<<TextContent(text)>>)

\* One answered call is added to the log.
Answer(tool, arguments, response) ==
    /\ Len(tool_log) < MaxRequests
    /\ tool_log' = Append(tool_log, [tool |-> tool, arguments |-> arguments,
                                     response |-> response])
    /\ UNCHANGED <<oneVars, MAX_ITERATIONS, twoVars>>

ServeGetRecentAlerts ==
    \E limit \in Limits :
       Answer("get_recent_alerts", [limit |-> limit],
              ToolResponse(get_recent_alerts(limit)))

ServeLookupIpGeolocation ==
    \E ip_address \in Addresses, reply \in LookupReplies, now \in Clock :
       Answer("lookup_ip_geolocation",
              [ip_address |-> ip_address, reply |-> reply],
              ToolResponse(lookup_ip_geolocation(ip_address, reply, now)))

ServeCheckIpReputation ==
    \E ip_address \in Addresses, now \in Clock :
       Answer("check_ip_reputation", [ip_address |-> ip_address],
              ToolResponse(check_ip_reputation(ip_address, now)))

ServeGetAlertDetails ==
    \E alert_id \in AlertIds :
       Answer("get_alert_details", [alert_id |-> alert_id],
              ToolResponse(get_alert_details(alert_id)))

\* The agent's variables rest.
InitServer ==
    /\ Init
    /\ MAX_ITERATIONS = 0
    /\ user_query = "Please review our recent security alerts."
    /\ provider_tools = <<>>

NextServer ==
    \/ ServeGetRecentAlerts
    \/ ServeLookupIpGeolocation
    \/ ServeCheckIpReputation
    \/ ServeGetAlertDetails

SpecServer == InitServer /\ [][NextServer]_vars

\* The document of the first content block of log entry e.
Document(e) == e.response.content[1].text.json

\* The log entries for tool.
CallsOf(tool) == {i \in 1..Len(tool_log) : tool_log[i].tool = tool}

\* C21: every answer of get_recent_alerts holds the first
\* max(0, min(limit, 10)) alerts of SIMULATED_ALERTS, all of them when the
\* log is shorter, never more than the limit asked for, and an alert_count
\* equal to the number of alerts it holds.
C21_RecentAlertsHonourLimit ==
    \A i \in CallsOf("get_recent_alerts") :
       LET limit == tool_log[i].arguments.limit
           capped == min(limit, 10)
           wanted == IF capped < 0 THEN 0 ELSE capped
           doc == Document(tool_log[i])
       IN /\ doc.alerts = SubSeq(SIMULATED_ALERTS, 1,
                                 min(wanted, Len(SIMULATED_ALERTS)))
          /\ Len(doc.alerts) <= (IF limit < 0 THEN 0 ELSE limit)
          /\ doc.alert_count = Len(doc.alerts)

\* The lookup behind log entry e failed: the request raised, or the body
\* was not the JSON object of an answer, or the HTTP status was an error,
\* or ip-api.com answered "fail".
LookupFailure(e) ==
    LET reply == e.arguments.reply IN
    \/ reply.kind # "json"
    \/ reply.status_code >= 400
    \/ ("status" \in DOMAIN reply.data /\ reply.data.status = "fail")

\* Log entry e was answered with a text as its first content block.
AnsweredWithText(e) ==
    /\ e.response.kind = "returned"
    /\ Len(e.response.content) >= 1
    /\ "text" \in DOMAIN e.response.content[1]

\* C22: every call is answered with a text as first content block;
\* check_ip_reputation flags exactly the addresses of KNOWN_MALICIOUS_IPS;
\* get_alert_details gives the stored alert with the id asked for, or an
\* error record when there is none; lookup_ip_geolocation gives an error
\* record whenever the lookup failed.
C22_ToolsAnswerWithRecords ==
    /\ \A i \in 1..Len(tool_log) : AnsweredWithText(tool_log[i])
    /\ \A i \in CallsOf("check_ip_reputation") :
          Document(tool_log[i]).is_malicious
             = (tool_log[i].arguments.ip_address \in DOMAIN KNOWN_MALICIOUS_IPS)
    /\ \A i \in CallsOf("get_alert_details") :
          LET doc == Document(tool_log[i])
              id == tool_log[i].arguments.alert_id
          IN IF \E k \in 1..Len(SIMULATED_ALERTS) : SIMULATED_ALERTS[k].id = id
             THEN /\ "error" \notin DOMAIN doc
                  /\ doc.id = id
                  /\ \E k \in 1..Len(SIMULATED_ALERTS) : SIMULATED_ALERTS[k] = doc
             ELSE "error" \in DOMAIN doc
    /\ \A i \in CallsOf("lookup_ip_geolocation") :
          LookupFailure(tool_log[i]) => "error" \in DOMAIN Document(tool_log[i])

\* The same with the HTTP status left aside, the failures of the lookup being
\* a request that raised, a body that is not a JSON object, and a "fail"
\* answer.
ToolsAnswerButForHttpStatus ==
    /\ \A i \in 1..Len(tool_log) : AnsweredWithText(tool_log[i])
    /\ \A i \in CallsOf("check_ip_reputation") :
          Document(tool_log[i]).is_malicious
             = (tool_log[i].arguments.ip_address \in DOMAIN KNOWN_MALICIOUS_IPS)
    /\ \A i \in CallsOf("get_alert_details") :
          LET doc == Document(tool_log[i]) IN
          \/ \E k \in 1..Len(SIMULATED_ALERTS) :
                SIMULATED_ALERTS[k] = doc /\ doc.id = tool_log[i].arguments.alert_id
          \/ /\ "error" \in DOMAIN doc
             /\ \A k \in 1..Len(SIMULATED_ALERTS) :
                   SIMULATED_ALERTS[k].id # tool_log[i].arguments.alert_id
    /\ \A i \in CallsOf("lookup_ip_geolocation") :
          LET reply == tool_log[i].arguments.reply IN
          (reply.kind # "json" \/ Get(reply.data, "status", "") = "fail")
             <=> "error" \in DOMAIN Document(tool_log[i])

\* The transcript of chat call k + 1 is the transcript of chat call k, then
\* one assistant message, then one tool message for each of its requests
\* and nothing else.
GroupBetween(k) ==
    LET P == chat_requests[k].messages
        S == chat_requests[k + 1].messages
        a == S[Len(P) + 1]
    IN /\ Len(S) > Len(P)
       /\ SubSeq(S, 1, Len(P)) = P
       /\ IsAssistant(a)
       /\ Len(S) = Len(P) + 1 + Len(a.tool_calls)
       /\ \A j \in (Len(P) + 2)..Len(S) : IsTool(S[j])

\* C23: the transcript handed to each chat call after the first holds, on
\* top of the previous call's transcript, the assistant message of the
\* iteration before and one tool message for each of its requests; the
\* i-th tool message is the text of what the i-th invocation ended with; an
\* invocation is issued only when every earlier one has its tool message,
\* and a chat call only when every invocation has.
C23_ResultsInBeforeNextDecision ==
    /\ [](\A k \in 1..(Len(chat_requests) - 1) : GroupBetween(k))
    /\ [](/\ Len(ToolMessages) <= Len(outcomes)
          /\ Len(outcomes) <= Len(dispatched)
          /\ \A i \in 1..Len(ToolMessages) :
                ToolMessages[i].content = ToolResultText(outcomes[i]))
    /\ [][Len(dispatched') > Len(dispatched)
             => Len(SelectSeq(messages, IsTool)) = Len(dispatched)]_vars
    /\ [][Len(chat_requests') > Len(chat_requests)
             => /\ Len(SelectSeq(messages, IsTool)) = Len(dispatched)
                /\ Len(dispatched) = Len(AllRequests)]_vars

\* The second chat call gets the first decision with its two requests and
\* both results, the first of them an error text.
C23_Witness ==
    /\ Len(chat_requests) = 2
    /\ Len(chat_requests[2].messages) = 5
    /\ Len(chat_requests[2].messages[3].tool_calls) = 2
    /\ outcomes[1].kind = "raised"
    /\ IsTool(chat_requests[2].messages[4])
    /\ chat_requests[2].messages[4].content = ToolResultText(outcomes[1])

\* The positions of the assistant messages in the transcript.
AssistantAt == {i \in 1..Len(messages) : IsAssistant(messages[i])}

\* The position where the group of the assistant message at i ends: just
\* before the next assistant message, or at the end of the transcript.
GroupEnd(i) ==
    LET later == {j \in AssistantAt : j > i} IN
    IF later = {} THEN Len(messages)
    ELSE (CHOOSE j \in later : \A k \in later : j <= k) - 1

\* C24: once seeded, the transcript is the system message, the user
\* message, and then only assistant and tool messages, the third message
\* being an assistant message; the tool messages after an assistant message
\* are never more than its requests, as many as its requests for every
\* assistant message but the last and, whenever the loop is at its while
\* condition or at a chat call, for the last one too; and an assistant
\* message without requests is the last message.
C24_TranscriptShape ==
    LoopStarted =>
       /\ Len(messages) >= 2
       /\ messages[1].role = "system"
       /\ messages[2].role = "user"
       /\ \A i \in 3..Len(messages) : IsAssistant(messages[i]) \/ IsTool(messages[i])
       /\ Len(messages) >= 3 => IsAssistant(messages[3])
       /\ \A i \in AssistantAt :
             /\ GroupEnd(i) - i <= Len(messages[i].tool_calls)
             /\ (GroupEnd(i) < Len(messages) \/ pc \in {"while", "chat"})
                   => GroupEnd(i) - i = Len(messages[i].tool_calls)
             /\ Len(messages[i].tool_calls) = 0 => i = Len(messages)

\* Two groups: two requests with both results, and a final answer.
C24_Witness ==
    /\ Len(messages) = 6
    /\ AssistantAt = {3, 6}
    /\ Len(messages[3].tool_calls) = 2
    /\ IsTool(messages[4]) /\ IsTool(messages[5])
    /\ messages[6].tool_calls = <<>>
    /\ outcome = "Completed"

\* C25: under a MAX_ITERATIONS of 0 or less, a session that got through
\* discovery never calls chat or call_tool, keeps iteration at 0 and the
\* transcript at its two seed messages, can only take the way out of the
\* loop, and has then returned the ceiling text as Exhausted.
C25_NoIterationUnderZeroCeiling ==
    (MAX_ITERATIONS <= 0 /\ LoopStarted)
       => /\ chat_calls = 0
          /\ chat_requests = <<>>
          /\ dispatched = <<>>
          /\ outcomes = <<>>
          /\ iteration = 0
          /\ Len(messages) = 2
          /\ messages[1].role = "system"
          /\ messages[2] = [role |-> "user", content |-> user_query]
          /\ pc \in {"while", "done"}
          /\ pc = "while" => (ENABLED LoopExhausted /\ ~ENABLED LoopEnter)
          /\ pc = "done" => /\ outcome = "Exhausted"
                            /\ result = PyStr(EXHAUSTED_TEXT)
                            /\ raised = NoException

\* The session ended Exhausted under a negative ceiling, two tools listed.
C25_Witness ==
    /\ MAX_ITERATIONS < 0
    /\ pc = "done"
    /\ outcome = "Exhausted"
    /\ Len(mcp_tools) = 2
    /\ Len(messages) = 2

\* C26: a session that ended Completed returned the content of the final
\* decision as the engine gave it, None when it gave none; the last
\* message of the transcript is the assistant message of that decision and
\* holds "" for None, and the very text returned otherwise.
C26_ReturnedTextIsTheEnginesOwn ==
    outcome = "Completed"
       => LET last == messages[Len(messages)] IN
          /\ result = llm_message.content
          /\ IsAssistant(last)
          /\ result = PyNone => last.content = ""
          /\ result # PyNone => (isinstance(result, "str") /\ result.s = last.content)

\* A final answer without text: None is returned, "" is recorded.
C26_Witness ==
    /\ outcome = "Completed"
    /\ result = PyNone
    /\ messages[Len(messages)].content = ""
    /\ messages[Len(messages)].tool_calls = <<>>

\* Nothing of the session proper has happened: no connection to the MCP
\* server, no list_tools, no chat call, no transcript.
NothingStarted ==
    /\ ~sse_open
    /\ ~session_open
    /\ ollama_client = "none"
    /\ list_calls = 0
    /\ chat_calls = 0
    /\ dispatched = <<>>
    /\ messages = <<>>

\* The step with which wait_for_ollama returns to run_soc_agent.
WaitReturns == pc = "wait_for_ollama" /\ pc' \notin {"wait_for_ollama", "done"}

====
